---- MODULE Spec2Model ----
(***************************************************************************)
(* Water station backend: payment ledgers (M-Pesa / Paystack), one-time    *)
(* dispensing codes (OTPs), station verification, the Redis cache in front *)
(* of the customer-facing verification, and the periodic expiry sweeps.    *)
(*                                                                         *)
(* Every handler is split at its awaits on the database / cache / gateway: *)
(* one action per await, so that concurrent requests interleave exactly    *)
(* where the Node.js event loop lets them.  Wall-clock time is abstracted  *)
(* to monotone flags: a credential's timedOut means expires_at <= NOW(), a *)
(* transaction's aged means its timeout window has passed.                 *)
(***************************************************************************)
EXTENDS Integers, Sequences, FiniteSets, TLC

\* ---------------------------------------------------------------- bounds
MaxOtps == 2

Refs == {1}
Stations == {"S1", "S2"}
Codes == {"111111", "222222"}
LitersIn == {10}
LitersAsked == {10, 20}
AmountsIn == {50, 52}
ResultCodes == {0, 1, 1032, 1037}
GatewayErrors == {"timeout", "rejected"}
ChargeEvents == {"charge.success", "charge.failed"}
VerifyStatuses == {"success", "failed", "abandoned", "reversed", "ongoing"}
ApiGens == {"api1", "api2"}
GenIds == ApiGens \cup {"cb"}

\* ------------------------------------------------------------- constants
maxAttempts == 3
pulsesPerLiter == 1000
pricePerLiter == 5
minAmount == 5
maxAmount == 70000

NoStation == "none"
NoTx == [status |-> "none"]
NoCache == [present |-> FALSE]
NoResp == [op |-> "none"]

VARIABLES
  enforceStationLock, \* stationConfig.enforceStationLock (fixed at start-up)
  paystack,           \* table transactions          : Refs -> row or NoTx
  mpesa,              \* table mpesa_transactions    : Refs -> row or NoTx
  otps,               \* table otps, in insertion order; id = index
  cache,              \* Redis keys otp:<ref>
  gen,                \* in-flight OtpService.generateOTP calls
  sv,                 \* in-flight StationOtpService.verifyOTPForStation calls
  cv,                 \* in-flight OtpService.verifyOTP call (customer-facing)
  mi,                 \* in-flight MpesaPaymentService.initiatePayment call
  cb,                 \* in-flight MpesaPaymentService.handleCallback call
  mv,                 \* in-flight MpesaPaymentService.verifyPayment call
  ms,                 \* in-flight MpesaPaymentService.getTransactionStatus call
  pi,                 \* in-flight PaymentService.initiatePayment call
  pw,                 \* in-flight PaymentService.handleWebhook call
  pv,                 \* in-flight PaymentService.verifyPayment call
  ps,                 \* in-flight PaymentService.getTransactionStatus call
  last                \* the response sent by the step just taken (NoResp if none)

psVars == <<pi, pw, pv, ps>>

mpVars == <<mi, cb, mv, ms>>

txVars == <<paystack, mpesa, mpVars, psVars>>

vars == <<enforceStationLock, txVars, otps, cache, gen, sv, cv, last>>

\* ------------------------------------------------------------ utilities
Max(S) == CHOOSE x \in S : \A y \in S : y <= x

\* otpGenerator.hashOTP: a one-way digest, injective on the codes in use
hashOTP(c) == <<"sha256", c>>

\* otpGenerator.verifyOTP: hash the candidate, compare with the stored hash
verifyOTP(c, h) == hashOTP(c) = h

\* ------------------------------------------------------- OtpRepository
OtpRow(r, h, l, m) ==
  [ref |-> r, hash |-> h, liters |-> l, status |-> "active",
   stationId |-> NoStation, attempts |-> 0, maxAttempts |-> m,
   timedOut |-> FALSE, verified |-> FALSE, used |-> FALSE]

OtpIds == 1..Len(otps)

ActiveIds(r) ==
  {i \in OtpIds : /\ otps[i].ref = r
                  /\ otps[i].status \in {"active", "in_progress"}
                  /\ ~otps[i].timedOut}

\* 0 stands for null (no row)
findActiveByTransaction(r) ==
  IF ActiveIds(r) = {} THEN 0 ELSE Max(ActiveIds(r))

OtpRepository_create(r, h, l, m) == Append(otps, OtpRow(r, h, l, m))

\* an UPDATE that also overwrites liters
OtpRepository_updateStatus_liters(id, st) ==
  [otps EXCEPT ![id].status = st, ![id].liters = 0]

OtpRepository_updateStatus(id, st) == [otps EXCEPT ![id].status = st]

\* the UPDATE without station_id and verified_at
markInProgress_statusOnly(id, s) == [otps EXCEPT ![id].status = "in_progress"]

markInProgress(id, s) ==
  [otps EXCEPT ![id].status = "in_progress",
               ![id].stationId = s,
               ![id].verified = TRUE]

markAsUsed(id) == [otps EXCEPT ![id].status = "used", ![id].used = TRUE]

incrementAttempts(id) ==
  [otps EXCEPT ![id].attempts = @ + 1,
               ![id].status = IF otps[id].attempts + 1 >= otps[id].maxAttempts
                              THEN "blocked" ELSE @]

\* the UPDATE limited to the first matching row
OtpRepository_markExpired_one ==
  [i \in OtpIds |->
     IF /\ otps[i].status = "active" /\ otps[i].timedOut
        /\ \A j \in 1..(i - 1) : ~(otps[j].status = "active" /\ otps[j].timedOut)
     THEN [otps[i] EXCEPT !.status = "expired"]
     ELSE otps[i]]

OtpRepository_markExpired ==
  [i \in OtpIds |->
     IF otps[i].status = "active" /\ otps[i].timedOut
     THEN [otps[i] EXCEPT !.status = "expired"]
     ELSE otps[i]]

\* TransactionRepository.findByReference: the Paystack table only
TransactionRepository_findByReference(r) == paystack[r]

\* --------------------------------------------------- pricingCalculator
\* roundingStrategy 'down': Math.floor
calculateLiters_down(amount) == amount \div pricePerLiter

\* roundingStrategy 'nearest' (pricing.config.js line 21): Math.round of a
\* positive quotient, half rounds up
calculateLiters(amount) == (2 * amount + pricePerLiter) \div (2 * pricePerLiter)

calculateAmount(liters) == liters * pricePerLiter

validatePaymentAmount(amount) ==
  amount > 0 /\ amount >= minAmount /\ amount <= maxAmount

\* transactionReference util: validateAmount(amount, minAmount = 1,
\* maxAmount = 70000), as PaymentService calls it
validateAmount(amount) == amount > 0 /\ amount >= 1 /\ amount <= 70000

getPaymentPreview(amount) ==
  [requestedAmount |-> amount,
   amount |-> calculateAmount(calculateLiters(amount)),
   liters |-> calculateLiters(amount),
   difference |-> calculateAmount(calculateLiters(amount)) - amount]

\* MpesaPaymentService.getPaymentPreview, lines 21-41: validate, then price
PaymentPreview ==
  /\ last.op = "previewRequest"
  /\ last' = IF validatePaymentAmount(last.amount)
             THEN [op |-> "preview", res |-> "OK",
                   requested |-> getPaymentPreview(last.amount).requestedAmount,
                   amount |-> getPaymentPreview(last.amount).amount,
                   liters |-> getPaymentPreview(last.amount).liters,
                   difference |-> getPaymentPreview(last.amount).difference]
             ELSE [op |-> "preview", res |-> "INVALID_AMOUNT",
                   requested |-> last.amount, amount |-> 0, liters |-> 0,
                   difference |-> 0]
  /\ UNCHANGED <<enforceStationLock, txVars, otps, cache, gen, sv, cv>>

\* ------------------------------------------ MpesaTransactionRepository
MpesaRow(amount, liters) ==
  [status |-> "pending", checkoutRequestId |-> 0, amount |-> amount,
   liters |-> liters, aged |-> FALSE]

MpesaRepository_updateStatus(r, st) == [mpesa EXCEPT ![r].status = st]

\* the checkout request id the gateway hands out for reference r is r itself
findByCheckoutRequestId(id) ==
  IF \E r \in Refs : mpesa[r] # NoTx /\ mpesa[r].checkoutRequestId = id
  THEN CHOOSE r \in Refs : mpesa[r] # NoTx /\ mpesa[r].checkoutRequestId = id
  ELSE 0

\* UPDATE ... WHERE status = 'pending' AND created_at < NOW() - 30 minutes
MpesaRepository_markExpired ==
  [r \in Refs |->
     IF mpesa[r] # NoTx /\ mpesa[r].status = "pending" /\ mpesa[r].aged
     THEN [mpesa[r] EXCEPT !.status = "timeout"]
     ELSE mpesa[r]]

\* the mapping without the cancel code
StatusOfResult_noCancel(code) ==
  IF code = 0 THEN "completed"
  ELSE IF code = 1037 THEN "timeout"
  ELSE "failed"

\* lines 178-186 and 298-306: provider result code to status
StatusOfResult(code) ==
  IF code = 0 THEN "completed"
  ELSE IF code = 1032 THEN "cancelled"
  ELSE IF code = 1037 THEN "timeout"
  ELSE "failed"

IdleTx == [pc |-> "idle", ref |-> 0]

\* an initiation call: calls counts its requests to the gateway, err is the
\* error message the gateway call ended with
IdleInit == [pc |-> "idle", ref |-> 0, calls |-> 0, err |-> ""]

\* ------------------------- TransactionRepository (table transactions)
PaystackRow(amount) ==
  [status |-> "pending", paystackReference |-> 0, amount |-> amount,
   aged |-> FALSE]

TransactionRepository_updateStatus(r, st) == [paystack EXCEPT ![r].status = st]

\* the gateway's reference for transaction r is r itself
findByPaystackReference(id) ==
  IF \E r \in Refs : paystack[r] # NoTx /\ paystack[r].paystackReference = id
  THEN CHOOSE r \in Refs : paystack[r] # NoTx /\ paystack[r].paystackReference = id
  ELSE 0

\* PAYSTACK_WEBHOOK_SECRET, and a key that is not the secret
webhookSecret == "whsec"
ForgedKey == "forged"

\* a request without the x-paystack-signature header
NoSignature == <<>>

\* crypto.createHmac('sha512', key).update(body).digest('hex')
createHmac(key, body) == <<"hmac-sha512", key, body>>

\* the raw body of a webhook for event and gateway reference id
WebhookBody(event, id) == <<event, id>>

\* the signature headers a webhook may arrive with
Signatures(body) ==
  {NoSignature, createHmac(webhookSecret, body), createHmac(ForgedKey, body)}

\* PaystackService.verifyWebhookSignature
verifyWebhookSignature(signature, body) ==
  /\ webhookSecret # ""
  /\ signature # NoSignature
  /\ createHmac(webhookSecret, body) = signature

IdlePw == [pc |-> "idle", ref |-> 0, event |-> "", signature |-> NoSignature]

IdlePv == [pc |-> "idle", ref |-> 0, was |-> ""]

IdleCb == [pc |-> "idle", ref |-> 0, code |-> 0, was |-> "", issued |-> FALSE]

\* ------------------------------------------------------------ call slots
IdleGen == [pc |-> "idle", ref |-> 0, liters |-> 0, existing |-> 0, code |-> ""]

IdleCv == [pc |-> "idle", ref |-> 0, code |-> "", id |-> 0, res |-> ""]

IdleSv == [pc |-> "idle", ref |-> 0, code |-> "", id |-> 0,
           status |-> "", stationId |-> NoStation]

GenBusy == {g \in GenIds : gen[g].pc # "idle"}

\* HTTP status of a verification response
StatusCode(res) ==
  CASE res = "OK" -> 200
    [] res \in {"EXPIRED", "USED", "BLOCKED", "INVALID"} -> 400
    [] res = "LOCKED" -> 403
    [] res = "NOT_FOUND" -> 404
    [] res = "IN_USE" -> 409
    [] OTHER -> 500

GenResp(g, r, res, c) ==
  [op |-> "generate", who |-> g, ref |-> r, res |-> res, otp |-> c]

SvResp(s, res) ==
  [op |-> "stationVerify", who |-> s, ref |-> sv[s].ref, code |-> sv[s].code,
   id |-> sv[s].id, lock |-> sv[s].stationId, res |-> res,
   liters |-> IF res = "OK" THEN otps[sv[s].id].liters ELSE 0,
   pulses |-> IF res = "OK" THEN otps[sv[s].id].liters * pulsesPerLiter ELSE 0]

\* ------------------------------------------- OtpService.generateOTP
\* lines 25-32: the transaction must exist (in the Paystack table) and be
\* completed
GenCheck(g, r, l) ==
  LET tx == TransactionRepository_findByReference(r) IN
  /\ IF tx = NoTx
     THEN /\ gen' = [gen EXCEPT ![g] = IdleGen]
          /\ last' = GenResp(g, r, "TX_NOT_FOUND", "")
     ELSE IF tx.status # "completed"
     THEN /\ gen' = [gen EXCEPT ![g] = IdleGen]
          /\ last' = GenResp(g, r, "TX_NOT_COMPLETED", "")
     ELSE /\ gen' = [gen EXCEPT ![g] =
                       [IdleGen EXCEPT !.ref = r, !.liters = l, !.pc = "find"]]
          /\ last' = NoResp
  /\ UNCHANGED <<enforceStationLock, txVars, otps, cache, sv, cv>>

\* line 35: look up the active credential
GenFind(g) ==
  /\ gen[g].pc = "find"
  /\ LET e == findActiveByTransaction(gen[g].ref) IN
     gen' = [gen EXCEPT ![g].existing = e,
                        ![g].pc = IF e # 0 THEN "expire" ELSE "create"]
  /\ last' = NoResp
  /\ UNCHANGED <<enforceStationLock, txVars, otps, cache, sv, cv>>

\* lines 36-39: invalidate the credential found
GenExpire(g) ==
  /\ gen[g].pc = "expire"
  /\ otps' = OtpRepository_updateStatus(gen[g].existing, "expired")
  /\ gen' = [gen EXCEPT ![g].pc = "create", ![g].existing = 0]
  /\ last' = NoResp
  /\ UNCHANGED <<enforceStationLock, txVars, cache, sv, cv>>

\* lines 41-56: draw the code, store its hash
GenCreate(g) ==
  /\ gen[g].pc = "create"
  /\ \E c \in Codes :
       /\ otps' = OtpRepository_create(gen[g].ref, hashOTP(c), gen[g].liters,
                                       maxAttempts)
       /\ gen' = [gen EXCEPT ![g].code = c, ![g].pc = "cache"]
  /\ last' = NoResp
  /\ UNCHANGED <<enforceStationLock, txVars, cache, sv, cv>>

\* lines 50-56, OtpRepository.create lines 55-67: the INSERT throws; the error
\* leaves generateOTP, nothing written before it is undone
GenCreateFail(g) ==
  /\ gen[g].pc = "create"
  /\ gen' = [gen EXCEPT ![g] = IdleGen]
  /\ last' = GenResp(g, gen[g].ref, "CREATE_FAILED", "")
  /\ UNCHANGED <<enforceStationLock, txVars, otps, cache, sv, cv>>

\* lines 58-81: best-effort cache write (it may fail, or Redis may be closed)
CacheAfterGenerate(g) ==
  \/ cache' = [cache EXCEPT ![gen[g].ref] =
       [present |-> TRUE, otpHash |-> hashOTP(gen[g].code),
        liters |-> gen[g].liters, expOf |-> Len(otps), attempts |-> 0]]
  \/ UNCHANGED cache

\* lines 58-97: cache write, then return the plaintext
GenCache(g) ==
  /\ gen[g].pc = "cache"
  /\ CacheAfterGenerate(g)
  /\ gen' = [gen EXCEPT ![g] = IdleGen]
  /\ last' = IF g \in ApiGens THEN GenResp(g, gen[g].ref, "OK", gen[g].code)
             ELSE NoResp
  /\ UNCHANGED <<enforceStationLock, txVars, otps, sv, cv>>

\* OtpController.generateOTP (POST /api/otp/generate)
ApiGenerate(g, r, l) ==
  /\ gen[g].pc = "idle"
  /\ Len(otps) + Cardinality(GenBusy) < MaxOtps
  /\ GenCheck(g, r, l)

\* ------------------------------------------- OtpService.getOTPStatus
\* the status object with the row's hash added to it
OtpStatusView_withHash(r, id) ==
  [op |-> "otpStatus", ref |-> r, exists |-> TRUE,
   status |-> otps[id].status, attempts |-> otps[id].attempts,
   maxAttempts |-> otps[id].maxAttempts, liters |-> otps[id].liters,
   remainingAttempts |-> otps[id].maxAttempts - otps[id].attempts,
   otpHash |-> otps[id].hash]

\* lines 264-272: the object returned for the row found (the row was
\* selected with expires_at > NOW(), so isExpired is false)
OtpStatusView(r, id) ==
  [op |-> "otpStatus", ref |-> r, exists |-> TRUE,
   status |-> otps[id].status, attempts |-> otps[id].attempts,
   maxAttempts |-> otps[id].maxAttempts, liters |-> otps[id].liters,
   remainingAttempts |-> otps[id].maxAttempts - otps[id].attempts]

\* lines 250-273 (GET /api/otp/status/:transactionReference)
getOTPStatus(r) ==
  /\ LET id == findActiveByTransaction(r) IN
     last' = IF id = 0
             THEN [op |-> "otpStatus", ref |-> r, exists |-> FALSE]
             ELSE OtpStatusView(r, id)
  /\ UNCHANGED <<enforceStationLock, txVars, otps, cache, gen, sv, cv>>

\* ------------------------ StationOtpService.getOTPStatusForStation
\* the lock left out of the status
isLockedToDifferentStation_never(id, s) == FALSE

\* lines 150-154
isLockedToDifferentStation(id, s) ==
  /\ enforceStationLock
  /\ otps[id].stationId # NoStation
  /\ otps[id].stationId # s

\* lines 134-170
getOTPStatusForStation(r, s) ==
  /\ LET id == findActiveByTransaction(r)
         isLocked == isLockedToDifferentStation(id, s)
     IN
     last' = IF id = 0
             THEN [op |-> "stationOtpStatus", who |-> s, ref |-> r,
                   exists |-> FALSE]
             ELSE [op |-> "stationOtpStatus", who |-> s, ref |-> r,
                   exists |-> TRUE, status |-> otps[id].status,
                   liters |-> otps[id].liters,
                   pulses |-> otps[id].liters * pulsesPerLiter,
                   attempts |-> otps[id].attempts,
                   maxAttempts |-> otps[id].maxAttempts,
                   remainingAttempts |->
                     otps[id].maxAttempts - otps[id].attempts,
                   stationId |-> otps[id].stationId,
                   isLockedToDifferentStation |-> isLocked,
                   canUse |-> /\ otps[id].status # "used"
                              /\ otps[id].status # "blocked"
                              /\ ~isLocked]
  /\ UNCHANGED <<enforceStationLock, txVars, otps, cache, gen, sv, cv>>

\* ------------------------- StationOtpService.verifyOTPForStation
\* lines 33-37: the SELECT; the row read is kept by the handler
SvFind(s, r, c) ==
  /\ sv[s].pc = "idle"
  /\ LET id == findActiveByTransaction(r) IN
     IF id = 0
     THEN /\ sv' = [sv EXCEPT ![s] = IdleSv]
          /\ last' = [op |-> "stationVerify", who |-> s, ref |-> r, code |-> c,
                      id |-> 0, lock |-> NoStation, res |-> "NOT_FOUND",
                      liters |-> 0, pulses |-> 0]
     ELSE /\ sv' = [sv EXCEPT ![s] =
                      [pc |-> "found", ref |-> r, code |-> c, id |-> id,
                       status |-> otps[id].status,
                       stationId |-> otps[id].stationId]]
          /\ last' = NoResp
  /\ UNCHANGED <<enforceStationLock, txVars, otps, cache, gen, cv>>

\* the checks of lines 39-77 without the station lock check of lines 56-64
SvOutcome_noLock(s) ==
  IF otps[sv[s].id].timedOut THEN "expire"
  ELSE IF sv[s].status = "used" THEN "USED"
  ELSE IF sv[s].status = "blocked" THEN "BLOCKED"
  ELSE IF sv[s].status = "in_progress" /\ sv[s].stationId # s THEN "IN_USE"
  ELSE IF ~verifyOTP(sv[s].code, otps[sv[s].id].hash) THEN "incr"
  ELSE "mark"

\* lines 39-77: the checks made on the row that was read (expires_at and
\* otp_hash never change, so only status and station_id may be stale)
SvOutcome(s) ==
  IF otps[sv[s].id].timedOut THEN "expire"
  ELSE IF sv[s].status = "used" THEN "USED"
  ELSE IF sv[s].status = "blocked" THEN "BLOCKED"
  ELSE IF /\ enforceStationLock
          /\ sv[s].stationId # NoStation
          /\ sv[s].stationId # s THEN "LOCKED"
  ELSE IF sv[s].status = "in_progress" /\ sv[s].stationId # s THEN "IN_USE"
  ELSE IF ~verifyOTP(sv[s].code, otps[sv[s].id].hash) THEN "incr"
  ELSE "mark"

\* a rejection that counts as an attempt
SvReject_counts(s) ==
  /\ sv[s].pc = "found"
  /\ SvOutcome(s) \in {"USED", "BLOCKED", "LOCKED", "IN_USE"}
  /\ otps' = incrementAttempts(sv[s].id)
  /\ sv' = [sv EXCEPT ![s] = IdleSv]
  /\ last' = SvResp(s, SvOutcome(s))
  /\ UNCHANGED <<enforceStationLock, txVars, cache, gen, cv>>

\* lines 46-72: rejected without a write
SvReject(s) ==
  /\ sv[s].pc = "found"
  /\ SvOutcome(s) \in {"USED", "BLOCKED", "LOCKED", "IN_USE"}
  /\ sv' = [sv EXCEPT ![s] = IdleSv]
  /\ last' = SvResp(s, SvOutcome(s))
  /\ UNCHANGED <<enforceStationLock, txVars, otps, cache, gen, cv>>

\* lines 41-43
SvExpire(s) ==
  /\ sv[s].pc = "found"
  /\ SvOutcome(s) = "expire"
  /\ otps' = OtpRepository_updateStatus(sv[s].id, "expired")
  /\ sv' = [sv EXCEPT ![s] = IdleSv]
  /\ last' = SvResp(s, "EXPIRED")
  /\ UNCHANGED <<enforceStationLock, txVars, cache, gen, cv>>

\* lines 77-101
SvIncr(s) ==
  /\ sv[s].pc = "found"
  /\ SvOutcome(s) = "incr"
  /\ otps' = incrementAttempts(sv[s].id)
  /\ sv' = [sv EXCEPT ![s] = IdleSv]
  /\ last' = SvResp(s, IF otps'[sv[s].id].status = "blocked"
                       THEN "BLOCKED" ELSE "INVALID")
  /\ UNCHANGED <<enforceStationLock, txVars, cache, gen, cv>>

\* lines 103-125
SvMark(s) ==
  /\ sv[s].pc = "found"
  /\ SvOutcome(s) = "mark"
  /\ otps' = markInProgress(sv[s].id, s)
  /\ sv' = [sv EXCEPT ![s] = IdleSv]
  /\ last' = SvResp(s, "OK")
  /\ UNCHANGED <<enforceStationLock, txVars, cache, gen, cv>>

\* ------------------------------------------- OtpService.verifyOTP
CvResp(r, c, src, id, res, l) ==
  [op |-> "verify", ref |-> r, code |-> c, src |-> src, id |-> id,
   res |-> res, liters |-> IF res = "OK" THEN l ELSE 0]

\* lines 109-133 then 144-243 on a cache hit: the record built from the
\* entry has status 'active' and no id, so no statement reaches the
\* database; the entry is dropped on EXPIRED and on success (errors ignored)
CvCacheHit(r, c) ==
  /\ cv.pc = "idle"
  /\ cache[r].present
  /\ LET o == IF otps[cache[r].expOf].timedOut THEN "EXPIRED"
              ELSE IF ~verifyOTP(c, cache[r].otpHash) THEN "INVALID"
              ELSE "OK" IN
     /\ \/ /\ o \in {"EXPIRED", "OK"}
           /\ cache' = [cache EXCEPT ![r] = NoCache]
        \/ UNCHANGED cache
     /\ last' = CvResp(r, c, "cache", 0, o, cache[r].liters)
  /\ UNCHANGED <<enforceStationLock, txVars, otps, gen, sv, cv>>

\* lines 109-133: a miss, or a Redis error, falls through to the database
CvCacheMiss(r, c) ==
  /\ cv.pc = "idle"
  /\ cv' = [IdleCv EXCEPT !.pc = "db", !.ref = r, !.code = c]
  /\ last' = NoResp
  /\ UNCHANGED <<enforceStationLock, txVars, otps, cache, gen, sv>>

\* lines 135-142
CvFind ==
  /\ cv.pc = "db"
  /\ LET id == findActiveByTransaction(cv.ref) IN
     IF id = 0
     THEN /\ cv' = IdleCv
          /\ last' = CvResp(cv.ref, cv.code, "db", 0, "NOT_FOUND", 0)
     ELSE /\ cv' = [cv EXCEPT !.pc = "have", !.id = id]
          /\ last' = NoResp
  /\ UNCHANGED <<enforceStationLock, txVars, otps, cache, gen, sv>>

\* lines 144-176: the row is active or in_progress, so the used and blocked
\* checks never fire
CvOutcome ==
  IF otps[cv.id].timedOut THEN "EXPIRED"
  ELSE IF ~verifyOTP(cv.code, otps[cv.id].hash) THEN "INVALID"
  ELSE "OK"

\* lines 148-150, 180-181, 218-220: the write for a record read from the
\* database
CvWrite ==
  /\ cv.pc = "have"
  /\ LET o == CvOutcome IN
     /\ otps' = CASE o = "EXPIRED" -> OtpRepository_updateStatus(cv.id, "expired")
                  [] o = "INVALID" -> incrementAttempts(cv.id)
                  [] o = "OK" -> markAsUsed(cv.id)
     /\ cv' = [cv EXCEPT !.pc = "cacheop",
                         !.res = IF o = "INVALID" /\ otps'[cv.id].status = "blocked"
                                 THEN "BLOCKED" ELSE o]
  /\ last' = NoResp
  /\ UNCHANGED <<enforceStationLock, txVars, cache, gen, sv>>

\* lines 152-162, 183-214, 222-243: refresh or drop the cache entry (errors
\* are ignored), then answer
CvCacheOp ==
  /\ cv.pc = "cacheop"
  /\ \/ cache' = [cache EXCEPT ![cv.ref] =
          IF cv.res \in {"INVALID", "BLOCKED"}
          THEN [present |-> TRUE, otpHash |-> otps[cv.id].hash,
                liters |-> otps[cv.id].liters, expOf |-> cv.id,
                attempts |-> otps[cv.id].attempts]
          ELSE NoCache]
     \/ UNCHANGED cache
  /\ last' = CvResp(cv.ref, cv.code, "db", cv.id, cv.res, otps[cv.id].liters)
  /\ cv' = IdleCv
  /\ UNCHANGED <<enforceStationLock, txVars, otps, gen, sv>>

\* Redis drops the key when its TTL (cacheTtlSeconds, set at or after the
\* credential's creation) has run out
CacheEvict(r) ==
  /\ cache[r].present
  /\ otps[cache[r].expOf].timedOut
  /\ cache' = [cache EXCEPT ![r] = NoCache]
  /\ last' = NoResp
  /\ UNCHANGED <<enforceStationLock, txVars, otps, gen, sv, cv>>

\* ------------------------------- MpesaPaymentService.initiatePayment
\* lines 56-95: validate, price, INSERT the pending row (the reference is
\* unique within mpesa_transactions only)
MiCreate(r, amount) ==
  /\ mi.pc = "idle"
  /\ validatePaymentAmount(amount)
  /\ IF mpesa[r] # NoTx
     THEN /\ UNCHANGED <<mpesa, mi>>
          /\ last' = [op |-> "mpesaInitiate", ref |-> r, res |-> "REF_EXISTS"]
     ELSE /\ mpesa' = [mpesa EXCEPT ![r] =
                         MpesaRow(getPaymentPreview(amount).amount,
                                  getPaymentPreview(amount).liters)]
          /\ mi' = [IdleInit EXCEPT !.pc = "push", !.ref = r]
          /\ last' = NoResp
  /\ UNCHANGED <<enforceStationLock, psVars, paystack, cb, mv, ms, otps, cache, gen, sv, cv>>

\* lines 97-105: the STK push is accepted by the gateway, or the call fails
MiPush ==
  /\ mi.pc = "push"
  /\ \/ mi' = [mi EXCEPT !.pc = "store", !.calls = @ + 1]
     \/ \E e \in GatewayErrors :
          mi' = [mi EXCEPT !.pc = "fail", !.calls = @ + 1, !.err = e]
  /\ last' = NoResp
  /\ UNCHANGED <<enforceStationLock, psVars, paystack, mpesa, cb, mv, ms, otps, cache, gen, sv, cv>>

\* lines 107-128
MiStore ==
  /\ mi.pc = "store"
  /\ mpesa' = [mpesa EXCEPT ![mi.ref].status = "processing",
                            ![mi.ref].checkoutRequestId = mi.ref]
  /\ mi' = IdleInit
  /\ last' = [op |-> "mpesaInitiate", ref |-> mi.ref, res |-> "OK"]
  /\ UNCHANGED <<enforceStationLock, psVars, paystack, cb, mv, ms, otps, cache, gen, sv, cv>>

\* lines 129-142 without the write of line 131
MiFail_noWrite ==
  /\ mi.pc = "fail"
  /\ UNCHANGED mpesa
  /\ mi' = IdleInit
  /\ last' = [op |-> "mpesaInitiate", ref |-> mi.ref, res |-> "GATEWAY_ERROR",
              calls |-> mi.calls, message |-> mi.err]
  /\ UNCHANGED <<enforceStationLock, psVars, paystack, cb, mv, ms, otps, cache, gen, sv, cv>>

\* lines 129-142
MiFail ==
  /\ mi.pc = "fail"
  /\ mpesa' = MpesaRepository_updateStatus(mi.ref, "failed")
  /\ mi' = IdleInit
  /\ last' = [op |-> "mpesaInitiate", ref |-> mi.ref, res |-> "GATEWAY_ERROR",
              calls |-> mi.calls, message |-> mi.err]
  /\ UNCHANGED <<enforceStationLock, psVars, paystack, cb, mv, ms, otps, cache, gen, sv, cv>>

\* lines 107-152: the database statements after the push fail (or the
\* process restarts): the call ends with an error and the row stays pending
MiLost ==
  /\ mi.pc \in {"store", "fail"}
  /\ mi' = IdleInit
  /\ last' = [op |-> "mpesaInitiate", ref |-> mi.ref, res |-> "INTERNAL_ERROR"]
  /\ UNCHANGED <<enforceStationLock, psVars, paystack, mpesa, cb, mv, ms, otps, cache, gen, sv, cv>>

\* the gateway knows checkout request r once it has accepted the push
Pushed(r) == (mi.pc = "store" /\ mi.ref = r)
             \/ (mpesa[r] # NoTx /\ mpesa[r].checkoutRequestId = r)

\* ------------------------------------------------- app middleware
\* the routes the providers post to
ProviderRoutes == {"mpesaCallback", "webhook"}

\* app.use(express.json(...)) runs before the routes: a body that is not
\* valid JSON makes it pass an error with statusCode 400 to errorHandler,
\* which answers with that status; the controller is never entered
expressJson(route) ==
  /\ last' = IF route = "mpesaCallback"
             THEN [op |-> "mpesaCallback", ref |-> 0, code |-> -1, was |-> "",
                   res |-> "MALFORMED_JSON", status |-> "", issued |-> FALSE,
                   sms |-> FALSE, http |-> 400]
             ELSE [op |-> "webhook", ref |-> 0, event |-> "",
                   signature |-> NoSignature, http |-> 400,
                   res |-> "MALFORMED_JSON", status |-> ""]
  /\ UNCHANGED <<enforceStationLock, txVars, otps, cache, gen, sv, cv>>

\* --------------------------------- MpesaPaymentService.handleCallback
CbResp(res, st, sms) ==
  [op |-> "mpesaCallback", ref |-> cb.ref, code |-> cb.code, was |-> cb.was,
   res |-> res, status |-> st, issued |-> cb.issued, sms |-> sms,
   http |-> 200]

\* lines 163-176: look the transaction up by checkout request id
CbFind(id, code) ==
  /\ cb.pc = "idle"
  /\ Pushed(id)
  /\ code = 0 => Len(otps) + Cardinality(GenBusy) < MaxOtps
  /\ LET r == findByCheckoutRequestId(id) IN
     IF r = 0
     THEN /\ cb' = IdleCb
          /\ last' = [op |-> "mpesaCallback", ref |-> id, code |-> code,
                      was |-> "", res |-> "TX_NOT_FOUND", status |-> "",
                      issued |-> FALSE, sms |-> FALSE, http |-> 200]
     ELSE /\ cb' = [IdleCb EXCEPT !.pc = "update", !.ref = r, !.code = code,
                                  !.was = mpesa[r].status]
          /\ last' = NoResp
  /\ UNCHANGED <<enforceStationLock, psVars, paystack, mpesa, mi, mv, ms, otps, cache, gen, sv, cv>>

\* lines 178-212: write the status the result code maps to
CbUpdate ==
  /\ cb.pc = "update"
  /\ mpesa' = MpesaRepository_updateStatus(cb.ref, StatusOfResult(cb.code))
  /\ IF StatusOfResult(cb.code) = "completed"
     THEN /\ cb' = [cb EXCEPT !.pc = "otp"]
          /\ last' = NoResp
     ELSE /\ cb' = IdleCb
          /\ last' = CbResp("OK", StatusOfResult(cb.code), FALSE)
  /\ UNCHANGED <<enforceStationLock, psVars, paystack, mi, mv, ms, otps, cache, gen, sv, cv>>

\* lines 215-221 with otpService lines 25-32; liters are those of the row
\* read at line 167
CbGenCheck ==
  /\ cb.pc = "otp"
  /\ gen["cb"].pc = "idle"
  /\ LET tx == TransactionRepository_findByReference(cb.ref) IN
     IF tx = NoTx \/ tx.status # "completed"
     THEN /\ cb' = IdleCb
          /\ UNCHANGED gen
          /\ last' = CbResp(IF tx = NoTx THEN "OTP_TX_NOT_FOUND"
                            ELSE "OTP_TX_NOT_COMPLETED", "completed", FALSE)
     ELSE /\ gen' = [gen EXCEPT !["cb"] =
                       [IdleGen EXCEPT !.ref = cb.ref,
                                       !.liters = mpesa[cb.ref].liters,
                                       !.pc = "find"]]
          /\ cb' = [cb EXCEPT !.pc = "otpwait"]
          /\ last' = NoResp
  /\ UNCHANGED <<enforceStationLock, psVars, paystack, mpesa, mi, mv, ms, otps, cache, sv, cv>>

\* otpService lines 58-97 inside the callback
CbGenCache ==
  /\ cb.pc = "otpwait"
  /\ gen["cb"].pc = "cache"
  /\ CacheAfterGenerate("cb")
  /\ gen' = [gen EXCEPT !["cb"] = IdleGen]
  /\ cb' = [cb EXCEPT !.pc = "sms", !.issued = TRUE]
  /\ last' = NoResp
  /\ UNCHANGED <<enforceStationLock, psVars, paystack, mpesa, mi, mv, ms, otps, sv, cv>>

\* the callback with an SMS failure thrown out of the handler
CbSms_throws ==
  /\ cb.pc = "sms"
  /\ \E ok \in BOOLEAN :
       last' = CbResp(IF ok THEN "OK" ELSE "SMS_ERROR", "completed", ok)
  /\ cb' = IdleCb
  /\ UNCHANGED <<enforceStationLock, psVars, paystack, mpesa, mi, mv, ms, otps, cache, gen, sv, cv>>

\* lines 223-243: send the code by SMS; a failure is logged and swallowed
CbSms ==
  /\ cb.pc = "sms"
  /\ \E ok \in BOOLEAN : last' = CbResp("OK", "completed", ok)
  /\ cb' = IdleCb
  /\ UNCHANGED <<enforceStationLock, psVars, paystack, mpesa, mi, mv, ms, otps, cache, gen, sv, cv>>

\* ---------------------------------- MpesaPaymentService.verifyPayment
\* lines 285-293
MvRead(r) ==
  /\ mv.pc = "idle"
  /\ mpesa[r] # NoTx
  /\ IF mpesa[r].checkoutRequestId = 0
     THEN /\ mv' = IdleTx
          /\ last' = [op |-> "mpesaVerify", ref |-> r, res |-> "NO_CHECKOUT_ID",
                      status |-> ""]
     ELSE /\ mv' = [pc |-> "query", ref |-> r]
          /\ last' = NoResp
  /\ UNCHANGED <<enforceStationLock, psVars, paystack, mpesa, mi, cb, ms, otps, cache, gen, sv, cv>>

\* lines 296-321: the gateway answers with a result code; store its status
MvUpdate(code) ==
  /\ mv.pc = "query"
  /\ mpesa' = MpesaRepository_updateStatus(mv.ref, StatusOfResult(code))
  /\ mv' = IdleTx
  /\ last' = [op |-> "mpesaVerify", ref |-> mv.ref, res |-> "OK",
              code |-> code, status |-> StatusOfResult(code)]
  /\ UNCHANGED <<enforceStationLock, psVars, paystack, mi, cb, ms, otps, cache, gen, sv, cv>>

\* lines 296 and 323-327: the status query fails, nothing is written
MvQueryFail ==
  /\ mv.pc = "query"
  /\ mv' = IdleTx
  /\ last' = [op |-> "mpesaVerify", ref |-> mv.ref, res |-> "GATEWAY_ERROR",
              status |-> ""]
  /\ UNCHANGED <<enforceStationLock, psVars, paystack, mpesa, mi, cb, ms, otps, cache, gen, sv, cv>>

\* --------------------------- MpesaPaymentService.getTransactionStatus
\* lines 258-270
MsRead(r) ==
  /\ ms.pc = "idle"
  /\ mpesa[r] # NoTx
  /\ IF mpesa[r].status \in {"pending", "processing"} /\ mpesa[r].aged
     THEN /\ ms' = [pc |-> "write", ref |-> r]
          /\ last' = NoResp
     ELSE /\ ms' = IdleTx
          /\ last' = [op |-> "mpesaStatus", ref |-> r, status |-> mpesa[r].status]
  /\ UNCHANGED <<enforceStationLock, psVars, paystack, mpesa, mi, cb, mv, otps, cache, gen, sv, cv>>

\* lines 271-276
MsWrite ==
  /\ ms.pc = "write"
  /\ mpesa' = MpesaRepository_updateStatus(ms.ref, "timeout")
  /\ ms' = IdleTx
  /\ last' = [op |-> "mpesaStatus", ref |-> ms.ref, status |-> "timeout"]
  /\ UNCHANGED <<enforceStationLock, psVars, paystack, mi, cb, mv, otps, cache, gen, sv, cv>>

\* MpesaTransactionRepository.markExpired, lines 245-263
MpesaSweep ==
  /\ mpesa' = MpesaRepository_markExpired
  /\ last' = [op |-> "mpesaSweep", rerun |-> (last.op = "mpesaSweep"),
              count |-> Cardinality({r \in Refs : mpesa'[r] # mpesa[r]})]
  /\ UNCHANGED <<enforceStationLock, mpVars, paystack, psVars, otps, cache, gen, sv, cv>>

\* 30 minutes have passed since the row was created (no initiation call
\* lasts that long: the gateway call has a bounded timeout)
MpesaAge(r) ==
  /\ mpesa[r] # NoTx
  /\ ~mpesa[r].aged
  /\ ~(mi.pc # "idle" /\ mi.ref = r)
  /\ mpesa' = [mpesa EXCEPT ![r].aged = TRUE]
  /\ last' = NoResp
  /\ UNCHANGED <<enforceStationLock, psVars, paystack, mi, cb, mv, ms, otps, cache, gen, sv, cv>>

\* ------------------------------------ PaymentService.initiatePayment
\* lines 89-122: validate and INSERT the pending row, expiring in 24 hours
PiCreate(r, amount) ==
  /\ pi.pc = "idle"
  /\ validateAmount(amount)
  /\ IF paystack[r] # NoTx
     THEN /\ UNCHANGED <<paystack, pi>>
          /\ last' = [op |-> "paystackInitiate", ref |-> r, res |-> "REF_EXISTS"]
     ELSE /\ paystack' = [paystack EXCEPT ![r] = PaystackRow(amount)]
          /\ pi' = [IdleInit EXCEPT !.pc = "init", !.ref = r]
          /\ last' = NoResp
  /\ UNCHANGED <<enforceStationLock, mpVars, mpesa, pw, pv, ps, otps, cache, gen, sv, cv>>

\* lines 124-138: the gateway opens the checkout, or the call fails
PiInit ==
  /\ pi.pc = "init"
  /\ \/ pi' = [pi EXCEPT !.pc = "store", !.calls = @ + 1]
     \/ \E e \in GatewayErrors :
          pi' = [pi EXCEPT !.pc = "fail", !.calls = @ + 1, !.err = e]
  /\ last' = NoResp
  /\ UNCHANGED <<enforceStationLock, mpVars, mpesa, paystack, pw, pv, ps, otps, cache, gen, sv, cv>>

\* lines 140-159
PiStore ==
  /\ pi.pc = "store"
  /\ paystack' = [paystack EXCEPT ![pi.ref].status = "processing",
                                  ![pi.ref].paystackReference = pi.ref]
  /\ pi' = IdleInit
  /\ last' = [op |-> "paystackInitiate", ref |-> pi.ref, res |-> "OK"]
  /\ UNCHANGED <<enforceStationLock, mpVars, mpesa, pw, pv, ps, otps, cache, gen, sv, cv>>

\* lines 160-174
PiFail ==
  /\ pi.pc = "fail"
  /\ paystack' = TransactionRepository_updateStatus(pi.ref, "failed")
  /\ pi' = IdleInit
  /\ last' = [op |-> "paystackInitiate", ref |-> pi.ref, res |-> "GATEWAY_ERROR",
              calls |-> pi.calls, message |-> pi.err]
  /\ UNCHANGED <<enforceStationLock, mpVars, mpesa, pw, pv, ps, otps, cache, gen, sv, cv>>

\* lines 140-190: the database statements after the gateway call fail (or
\* the process restarts): the call ends with an error, the row stays pending
PiLost ==
  /\ pi.pc \in {"store", "fail"}
  /\ pi' = IdleInit
  /\ last' = [op |-> "paystackInitiate", ref |-> pi.ref, res |-> "INTERNAL_ERROR"]
  /\ UNCHANGED <<enforceStationLock, mpVars, mpesa, paystack, pw, pv, ps, otps, cache, gen, sv, cv>>

\* the gateway knows reference r once it has opened the checkout
Initialised(r) == (pi.pc = "store" /\ pi.ref = r)
                  \/ (paystack[r] # NoTx /\ paystack[r].paystackReference = r)

\* -------------------------------------- PaymentService.handleWebhook
\* lines 308-343 and 390-398: dispatch on the event, look the row up
PwFind(id, event, signature) ==
  /\ pw.pc = "idle"
  /\ Initialised(id)
  /\ LET r == findByPaystackReference(id) IN
     IF r = 0
     THEN /\ pw' = IdlePw
          /\ last' = [op |-> "webhook", ref |-> id, event |-> event,
                      signature |-> signature, http |-> 200,
                      res |-> "TX_NOT_FOUND", status |-> ""]
     ELSE /\ pw' = [pc |-> "update", ref |-> r, event |-> event,
                    signature |-> signature]
          /\ last' = NoResp
  /\ UNCHANGED <<enforceStationLock, mpVars, mpesa, paystack, pi, pv, ps, otps, cache, gen, sv, cv>>

\* PaymentController.handleWebhook (POST /api/payments/webhook): a
\* signature that is present is verified, a request without one is
\* processed; every error, the 401 of an invalid signature included, is
\* caught and answered with status 200 and success false
handleWebhook(signature, id, event) ==
  IF /\ signature # NoSignature
     /\ ~verifyWebhookSignature(signature, WebhookBody(event, id))
  THEN /\ pw.pc = "idle"
       /\ Initialised(id)
       /\ last' = [op |-> "webhook", ref |-> id, event |-> event,
                   signature |-> signature, http |-> 200,
                   res |-> "INVALID_SIGNATURE", status |-> ""]
       /\ UNCHANGED <<enforceStationLock, txVars, otps, cache, gen, sv, cv>>
  ELSE PwFind(id, event, signature)

\* lines 345-384 (_handleSuccessfulCharge) and 400-415 (_handleFailedCharge)
PwUpdate ==
  /\ pw.pc = "update"
  /\ LET st == IF pw.event = "charge.success" THEN "completed" ELSE "failed" IN
     /\ paystack' = TransactionRepository_updateStatus(pw.ref, st)
     /\ last' = [op |-> "webhook", ref |-> pw.ref, event |-> pw.event,
                 signature |-> pw.signature, http |-> 200,
                 res |-> "OK", status |-> st]
  /\ pw' = IdlePw
  /\ UNCHANGED <<enforceStationLock, mpVars, mpesa, pi, pv, ps, otps, cache, gen, sv, cv>>

\* -------------------------------------- PaymentService.verifyPayment
\* lines 225-235
PvRead(r) ==
  /\ pv.pc = "idle"
  /\ paystack[r] # NoTx
  /\ IF paystack[r].paystackReference = 0
     THEN /\ pv' = IdlePv
          /\ last' = [op |-> "paystackVerify", ref |-> r, res |-> "NO_REFERENCE",
                      status |-> ""]
     ELSE /\ pv' = [pc |-> "query", ref |-> r, was |-> paystack[r].status]
          /\ last' = NoResp
  /\ UNCHANGED <<enforceStationLock, mpVars, mpesa, paystack, pi, pw, ps, otps, cache, gen, sv, cv>>

\* lines 243-252: gateway status to status; any other gateway status keeps
\* the status read at line 226
StatusOfVerify(vs, was) ==
  IF vs = "success" THEN "completed"
  ELSE IF vs = "failed" THEN "failed"
  ELSE IF vs \in {"abandoned", "reversed"} THEN "cancelled"
  ELSE was

\* lines 237-293
PvUpdate(vs) ==
  /\ pv.pc = "query"
  /\ paystack' = TransactionRepository_updateStatus(pv.ref, StatusOfVerify(vs, pv.was))
  /\ pv' = IdlePv
  /\ last' = [op |-> "paystackVerify", ref |-> pv.ref, res |-> "OK",
              status |-> StatusOfVerify(vs, pv.was)]
  /\ UNCHANGED <<enforceStationLock, mpVars, mpesa, pi, pw, ps, otps, cache, gen, sv, cv>>

\* lines 238-240 and 294-300: the verification call fails, nothing is written
PvQueryFail ==
  /\ pv.pc = "query"
  /\ pv' = IdlePv
  /\ last' = [op |-> "paystackVerify", ref |-> pv.ref, res |-> "GATEWAY_ERROR",
              status |-> ""]
  /\ UNCHANGED <<enforceStationLock, mpVars, mpesa, paystack, pi, pw, ps, otps, cache, gen, sv, cv>>

\* -------------------------------- PaymentService.getTransactionStatus
\* lines 199-210
PsRead(r) ==
  /\ ps.pc = "idle"
  /\ paystack[r] # NoTx
  /\ IF paystack[r].status = "pending" /\ paystack[r].aged
     THEN /\ ps' = [pc |-> "write", ref |-> r]
          /\ last' = NoResp
     ELSE /\ ps' = IdleTx
          /\ last' = [op |-> "paystackStatus", ref |-> r,
                      status |-> paystack[r].status]
  /\ UNCHANGED <<enforceStationLock, mpVars, mpesa, paystack, pi, pw, pv, otps, cache, gen, sv, cv>>

\* lines 211-217
PsWrite ==
  /\ ps.pc = "write"
  /\ paystack' = TransactionRepository_updateStatus(ps.ref, "expired")
  /\ ps' = IdleTx
  /\ last' = [op |-> "paystackStatus", ref |-> ps.ref, status |-> "expired"]
  /\ UNCHANGED <<enforceStationLock, mpVars, mpesa, pi, pw, pv, otps, cache, gen, sv, cv>>

\* TransactionTimeoutService.markExpiredTransactions (every 60 s):
\* UPDATE ... WHERE status = 'pending' AND expires_at < NOW()
markExpiredTransactions ==
  /\ paystack' = [r \in Refs |->
                    IF /\ paystack[r] # NoTx
                       /\ paystack[r].status = "pending"
                       /\ paystack[r].aged
                    THEN [paystack[r] EXCEPT !.status = "expired"]
                    ELSE paystack[r]]
  /\ last' = [op |-> "txSweep", rerun |-> (last.op = "txSweep"),
              count |-> Cardinality({r \in Refs : paystack'[r] # paystack[r]})]
  /\ UNCHANGED <<enforceStationLock, mpVars, mpesa, psVars, otps, cache, gen, sv, cv>>

\* 24 hours have passed since the row was created (no initiation call lasts
\* that long: the gateway call has a bounded timeout)
PaystackAge(r) ==
  /\ paystack[r] # NoTx
  /\ ~paystack[r].aged
  /\ ~(pi.pc # "idle" /\ pi.ref = r)
  /\ paystack' = [paystack EXCEPT ![r].aged = TRUE]
  /\ last' = NoResp
  /\ UNCHANGED <<enforceStationLock, mpVars, mpesa, psVars, otps, cache, gen, sv, cv>>

\* ------------------------------------------------------ time and sweeps
\* the wall clock passes the expires_at of credential i (credentials expire
\* in creation order: expires_at = creation time + expirationMinutes)
ClockExpire(i) ==
  /\ i \in OtpIds
  /\ ~otps[i].timedOut
  /\ \A j \in 1..(i - 1) : otps[j].timedOut
  /\ otps' = [otps EXCEPT ![i].timedOut = TRUE]
  /\ last' = NoResp
  /\ UNCHANGED <<enforceStationLock, txVars, cache, gen, sv, cv>>

\* OtpExpirationService.markExpiredOTPs (every 60 s); rerun tells that the
\* step before this one was the same sweep
OtpSweep ==
  /\ otps' = OtpRepository_markExpired
  /\ last' = [op |-> "otpSweep", rerun |-> (last.op = "otpSweep"),
              count |-> Cardinality({i \in OtpIds : otps'[i] # otps[i]})]
  /\ UNCHANGED <<enforceStationLock, txVars, cache, gen, sv, cv>>

\* ------------------------------------------------------------------ Init
CompletedTx(r) ==
  [status |-> "completed", paystackReference |-> r, amount |-> 50,
   aged |-> FALSE]

\* no request in flight, nothing cached
Idle ==
  /\ mi = IdleInit /\ cb = IdleCb /\ mv = IdleTx /\ ms = IdleTx
  /\ pi = IdleInit /\ pw = IdlePw /\ pv = IdlePv /\ ps = IdleTx
  /\ cache = [r \in Refs |-> NoCache]
  /\ gen = [g \in GenIds |-> IdleGen]
  /\ sv = [s \in Stations |-> IdleSv]
  /\ cv = IdleCv

Quiet == Idle /\ last = NoResp

\* the state after start-up: empty tables, empty cache, no request in flight
InitEmpty ==
  /\ enforceStationLock = TRUE
  /\ paystack = [r \in Refs |-> NoTx]
  /\ mpesa = [r \in Refs |-> NoTx]
  /\ otps = <<>>
  /\ Quiet

\* Stations: one credential has just been issued for a completed payment
InitStation ==
  /\ enforceStationLock \in BOOLEAN
  /\ paystack = [r \in Refs |-> CompletedTx(r)]
  /\ mpesa = [r \in Refs |-> NoTx]
  /\ \E c \in Codes : otps = <<OtpRow(1, hashOTP(c), 10, maxAttempts)>>
  /\ Quiet

NextStation ==
  \/ \E s \in Stations, r \in Refs, c \in Codes : SvFind(s, r, c)
  \/ \E s \in Stations : SvReject(s) \/ SvExpire(s) \/ SvIncr(s) \/ SvMark(s)
  \/ \E i \in 1..MaxOtps : ClockExpire(i)
  \/ OtpSweep

SpecStation == InitStation /\ [][NextStation]_vars

\* Issuance: payments are completed, customers request and present codes
InitIssue ==
  /\ enforceStationLock = TRUE
  /\ paystack = [r \in Refs |-> CompletedTx(r)]
  /\ mpesa = [r \in Refs |-> NoTx]
  /\ otps = <<>>
  /\ Quiet

NextIssue ==
  \/ \E g \in ApiGens, r \in Refs, l \in LitersIn : ApiGenerate(g, r, l)
  \/ \E g \in ApiGens : GenFind(g)
  \/ \E g \in ApiGens : GenExpire(g)
  \/ \E g \in ApiGens : GenCreate(g)
  \/ \E g \in ApiGens : GenCache(g)
  \/ \E i \in 1..MaxOtps : ClockExpire(i)
  \/ OtpSweep

SpecIssue == InitIssue /\ [][NextIssue]_vars

\* Re-issue: issuers whose insert may fail
NextReissue ==
  \/ \E g \in ApiGens, r \in Refs, l \in LitersIn : ApiGenerate(g, r, l)
  \/ \E g \in ApiGens : GenFind(g)
  \/ \E g \in ApiGens : GenExpire(g)
  \/ \E g \in ApiGens : GenCreate(g)
  \/ \E g \in ApiGens : GenCreateFail(g)
  \/ \E g \in ApiGens : GenCache(g)

SpecReissue == InitIssue /\ [][NextReissue]_vars

\* Customer-facing verification: one issuer, the customer and the cache
NextCust ==
  \/ \E r \in Refs, l \in LitersIn : ApiGenerate("api1", r, l)
  \/ GenFind("api1") \/ GenExpire("api1") \/ GenCreate("api1") \/ GenCache("api1")
  \/ \E r \in Refs, c \in Codes : CvCacheHit(r, c)
  \/ \E r \in Refs, c \in Codes : CvCacheMiss(r, c)
  \/ CvFind \/ CvWrite \/ CvCacheOp
  \/ \E r \in Refs : CacheEvict(r)
  \/ \E i \in 1..MaxOtps : ClockExpire(i)
  \/ OtpSweep

SpecCust == InitIssue /\ [][NextCust]_vars

\* M-Pesa: the Paystack table may already hold a completed payment
InitMpesa ==
  /\ enforceStationLock = TRUE
  /\ paystack \in [Refs -> {NoTx} \cup {CompletedTx(r) : r \in Refs}]
  /\ mpesa = [r \in Refs |-> NoTx]
  /\ otps = <<>>
  /\ Quiet

NextMpesa ==
  \/ \E r \in Refs, a \in AmountsIn : MiCreate(r, a)
  \/ MiPush \/ MiStore \/ MiFail \/ MiLost
  \/ \E r \in Refs, code \in ResultCodes : CbFind(r, code)
  \/ CbUpdate \/ CbGenCheck \/ CbGenCache \/ CbSms
  \/ GenFind("cb") \/ GenExpire("cb") \/ GenCreate("cb")
  \/ \E r \in Refs : MvRead(r)
  \/ \E code \in ResultCodes : MvUpdate(code)
  \/ MvQueryFail
  \/ \E r \in Refs : MsRead(r)
  \/ MsWrite
  \/ \E r \in Refs : MpesaAge(r)
  \/ \E i \in 1..MaxOtps : ClockExpire(i)

SpecMpesa == InitMpesa /\ [][NextMpesa]_vars

\* every handler that has started runs to its end (the event loop resumes
\* each await); requests, provider deliveries and the clock are not forced
MpesaContinue ==
  \/ MiPush \/ MiStore \/ MiFail \/ MiLost
  \/ CbUpdate \/ CbGenCheck \/ CbGenCache \/ CbSms
  \/ GenFind("cb") \/ GenExpire("cb") \/ GenCreate("cb")
  \/ (\E code \in ResultCodes : MvUpdate(code))
  \/ MvQueryFail
  \/ MsWrite

FairMpesa == SpecMpesa /\ WF_vars(MpesaContinue)

\* Paystack: initiation, webhooks, verify polls, status reads and the sweep
NextPaystack ==
  \/ \E r \in Refs, a \in AmountsIn : PiCreate(r, a)
  \/ PiInit \/ PiStore \/ PiFail \/ PiLost
  \/ \E r \in Refs, e \in ChargeEvents :
       \E sg \in Signatures(WebhookBody(e, r)) : handleWebhook(sg, r, e)
  \/ PwUpdate
  \/ \E r \in Refs : PvRead(r)
  \/ \E vs \in VerifyStatuses : PvUpdate(vs)
  \/ PvQueryFail
  \/ \E r \in Refs : PsRead(r)
  \/ PsWrite
  \/ markExpiredTransactions
  \/ \E r \in Refs : PaystackAge(r)

SpecPaystack == InitEmpty /\ [][NextPaystack]_vars

\* a success callback or webhook against the status reads and the sweep
NextPoll ==
  \/ \E r \in Refs, a \in AmountsIn : MiCreate(r, a)
  \/ MiPush \/ MiStore \/ MiFail \/ MiLost
  \/ \E r \in Refs : CbFind(r, 0)
  \/ CbUpdate \/ CbGenCheck \/ CbGenCache \/ CbSms
  \/ GenFind("cb") \/ GenExpire("cb") \/ GenCreate("cb")
  \/ \E r \in Refs : MsRead(r)
  \/ MsWrite
  \/ \E r \in Refs : MpesaAge(r)
  \/ \E r \in Refs, a \in AmountsIn : PiCreate(r, a)
  \/ PiInit \/ PiStore \/ PiFail \/ PiLost
  \/ \E r \in Refs :
       handleWebhook(createHmac(webhookSecret, WebhookBody("charge.success", r)),
                     r, "charge.success")
  \/ PwUpdate
  \/ \E r \in Refs : PsRead(r)
  \/ PsWrite
  \/ markExpiredTransactions
  \/ \E r \in Refs : PaystackAge(r)
  \/ \E route \in ProviderRoutes : expressJson(route)

SpecPoll == InitEmpty /\ [][NextPoll]_vars

\* every handler that has started runs to its end
PollContinue ==
  \/ MiPush \/ MiStore \/ MiFail \/ MiLost
  \/ CbUpdate \/ CbGenCheck \/ CbGenCache \/ CbSms
  \/ GenFind("cb") \/ GenExpire("cb") \/ GenCreate("cb")
  \/ MsWrite
  \/ PiInit \/ PiStore \/ PiFail \/ PiLost
  \/ PwUpdate
  \/ PsWrite

\* startServer schedules the transaction sweep every 60 s; it schedules no
\* sweep of mpesa_transactions.  Requests, provider deliveries and the clock
\* are not forced.
FairPoll ==
  SpecPoll /\ WF_vars(PollContinue) /\ WF_vars(markExpiredTransactions)

\* Pricing: a preview request for every whole amount from 0 to just above
\* maxAmount
InitPricing ==
  /\ enforceStationLock = TRUE
  /\ paystack = [r \in Refs |-> NoTx]
  /\ mpesa = [r \in Refs |-> NoTx]
  /\ otps = <<>>
  /\ Idle
  /\ \E a \in 0..(maxAmount + 1) : last = [op |-> "previewRequest", amount |-> a]

SpecPricing == InitPricing /\ [][PaymentPreview]_vars

\* Issue requests: each ledger holds no row, an open row or a completed row
\* for the reference; customers post the reference with a liters value
InitApi ==
  /\ enforceStationLock = TRUE
  /\ paystack \in [Refs -> {NoTx}
                     \cup {[PaystackRow(50) EXCEPT !.paystackReference = r] : r \in Refs}
                     \cup {CompletedTx(r) : r \in Refs}]
  /\ mpesa \in [Refs -> {NoTx}
                  \cup {[MpesaRow(50, 10) EXCEPT !.checkoutRequestId = r,
                                                 !.status = st] :
                          r \in Refs, st \in {"processing", "completed"}}]
  /\ otps = <<>>
  /\ Quiet

NextApi ==
  \/ \E g \in ApiGens, r \in Refs, l \in LitersAsked : ApiGenerate(g, r, l)
  \/ \E g \in ApiGens : GenFind(g)
  \/ \E g \in ApiGens : GenExpire(g)
  \/ \E g \in ApiGens : GenCreate(g)
  \/ \E g \in ApiGens : GenCache(g)
  \/ \E i \in 1..MaxOtps : ClockExpire(i)
  \/ OtpSweep

SpecApi == InitApi /\ [][NextApi]_vars

\* Reads: one issuer, a station and the customer verify and ask for status
\* (no credential times out here, and a single station is never refused)
NextRead ==
  \/ \E r \in Refs, l \in LitersIn : ApiGenerate("api1", r, l)
  \/ GenFind("api1") \/ GenExpire("api1") \/ GenCreate("api1") \/ GenCache("api1")
  \/ \E r \in Refs, c \in Codes : SvFind("S1", r, c)
  \/ SvIncr("S1") \/ SvMark("S1")
  \/ \E r \in Refs, c \in Codes : CvCacheHit(r, c)
  \/ \E r \in Refs : getOTPStatus(r)
  \/ \E r \in Refs, s \in Stations : getOTPStatusForStation(r, s)

SpecRead == InitIssue /\ [][NextRead]_vars

\* Sweeps: the stores hold any rows; the clock advances and the three
\* expiry sweeps run
SweepOtpRow(st, t) ==
  [OtpRow(1, hashOTP("111111"), 10, maxAttempts) EXCEPT
     !.status = st, !.timedOut = t,
     !.stationId = IF st \in {"in_progress", "used"} THEN "S1" ELSE NoStation,
     !.verified = (st \in {"in_progress", "used"}),
     !.used = (st = "used"),
     !.attempts = IF st = "blocked" THEN maxAttempts ELSE 0]

SweepOtpRows ==
  {SweepOtpRow(st, t) :
     st \in {"active", "in_progress", "used", "expired", "blocked"},
     t \in BOOLEAN}

InitSweep ==
  /\ enforceStationLock = TRUE
  /\ \E n \in 0..MaxOtps :
       /\ otps \in [1..n -> SweepOtpRows]
       /\ \A i \in 1..n : \A j \in 1..(i - 1) : otps[i].timedOut => otps[j].timedOut
  /\ paystack \in [Refs -> {NoTx} \cup
       {[PaystackRow(50) EXCEPT !.status = st, !.aged = a,
                                !.paystackReference =
                                   IF st = "pending" THEN 0 ELSE r] :
          r \in Refs, a \in BOOLEAN,
          st \in {"pending", "processing", "completed", "failed", "expired"}}]
  /\ mpesa \in [Refs -> {NoTx} \cup
       {[MpesaRow(50, 10) EXCEPT !.status = st, !.aged = a,
                                 !.checkoutRequestId =
                                    IF st = "pending" THEN 0 ELSE r] :
          r \in Refs, a \in BOOLEAN,
          st \in {"pending", "processing", "completed", "failed", "timeout"}}]
  /\ Quiet

NextSweep ==
  \/ OtpSweep
  \/ markExpiredTransactions
  \/ MpesaSweep
  \/ \E i \in 1..MaxOtps : ClockExpire(i)
  \/ \E r \in Refs : PaystackAge(r)
  \/ \E r \in Refs : MpesaAge(r)

SpecSweep == InitSweep /\ [][NextSweep]_vars

\* Stations that also ask for the status of the credential
NextStationRead ==
  \/ NextStation
  \/ \E r \in Refs, s \in Stations : getOTPStatusForStation(r, s)

SpecStationRead == InitStation /\ [][NextStationRead]_vars

\* Audit trail: the operations that write a credential (create, update,
\* markInProgress, incrementAttempts, markExpired), with one issuer and one
\* station
NextTrail ==
  \/ \E r \in Refs, l \in LitersIn : ApiGenerate("api1", r, l)
  \/ GenFind("api1") \/ GenExpire("api1") \/ GenCreate("api1") \/ GenCache("api1")
  \/ \E r \in Refs, c \in Codes : SvFind("S1", r, c)
  \/ SvExpire("S1") \/ SvIncr("S1") \/ SvMark("S1")
  \/ \E i \in 1..MaxOtps : ClockExpire(i)
  \/ OtpSweep

SpecTrail == InitIssue /\ [][NextTrail]_vars

\* ===================================================== properties
LiveIds(r) ==
  {i \in OtpIds : otps[i].ref = r /\ otps[i].status \in {"active", "in_progress"}}

\* C1: for every transaction reference at most one credential is in status
\* active or in_progress at any time, concurrent generateOTP calls included.
C1_AtMostOneLive == \A r \in Refs : Cardinality(LiveIds(r)) <= 1

\* C2: a credential is redeemed at most once: a station verify with the
\* correct code from the station that already holds the credential
\* in_progress is not answered with a second authorization.
C2_RedeemedOnce ==
  [][(/\ last'.op = "stationVerify"
      /\ last'.id # 0
      /\ otps[last'.id].status = "in_progress"
      /\ otps[last'.id].stationId = last'.who
      /\ verifyOTP(last'.code, otps[last'.id].hash))
     => last'.res # "OK"]_vars

\* C3: when two different stations verify the same active credential with
\* the correct code concurrently, at most one of them succeeds: no station
\* is authorized on a credential another station has already been
\* authorized on.
C3_OneWinner ==
  [][(last'.op = "stationVerify" /\ last'.res = "OK")
     => otps[last'.id].stationId \in {NoStation, last'.who}]_vars

\* C4: once a credential is blocked, every later station verify for its
\* reference is answered BLOCKED, whatever code is presented.
C4_BlockedStaysBlocked ==
  [][(/\ last'.op = "stationVerify"
      /\ sv[last'.who].pc = "idle"
      /\ \E i \in OtpIds : otps[i].ref = last'.ref /\ otps[i].status = "blocked")
     => last'.res = "BLOCKED"]_vars

\* the code presented is that of a credential of reference r that has been
\* followed by another credential of r carrying a different code
Superseded(r, c) ==
  \E i, j \in OtpIds :
    /\ i < j
    /\ otps[i].ref = r /\ otps[j].ref = r
    /\ otps[i].hash = hashOTP(c)
    /\ \A k \in OtpIds : (k > i /\ otps[k].ref = r) => otps[k].hash # hashOTP(c)

\* C5: after a second credential has been issued for a reference (and no
\* issuance is under way), a customer-facing verify presenting the first
\* credential's code never returns success, whether or not the second
\* issuance reached the cache.  The verify taken here is answered within one
\* step, so it starts after the issuance has ended.
C5_OldCodeNeverAccepted ==
  (/\ last.op = "verify"
   /\ last.src = "cache"
   /\ GenBusy = {}
   /\ Superseded(last.ref, last.code))
  => last.res # "OK"

\* C6: a station verify that reads a credential locked to another station
\* and still within its validity is refused with LOCKED (403) when
\* enforceStationLock is on and with IN_USE (409) when it is off; it is never
\* answered with an authorization.
C6_StationLock ==
  (/\ last.op = "stationVerify"
   /\ last.lock \notin {NoStation, last.who}
   /\ last.res # "EXPIRED")
  => /\ last.res = (IF enforceStationLock THEN "LOCKED" ELSE "IN_USE")
     /\ StatusCode(last.res) = (IF enforceStationLock THEN 403 ELSE 409)
     /\ last.pulses = 0

\* S2 presents the correct code for a credential S1 holds, and is refused
C6_Witness ==
  /\ last.op = "stationVerify"
  /\ last.who = "S2"
  /\ last.lock = "S1"
  /\ verifyOTP(last.code, otps[last.id].hash)
  /\ otps[last.id].status = "in_progress"
  /\ last.res = "LOCKED"

\* a credential for the callback's reference was issued before this delivery
EarlierCredential ==
  Cardinality({i \in OtpIds : otps[i].ref = cb.ref})
    > (IF gen["cb"].pc = "cache" \/ cb.issued THEN 1 ELSE 0)

\* C7: applying the success callback (result code 0) of an M-Pesa
\* transaction again, after an earlier delivery has issued its credential,
\* issues no new credential, leaves every credential's status as it is and
\* sends no notification.
C7_SecondDeliveryNoEffect ==
  [][(cb.pc # "idle" /\ cb.code = 0 /\ EarlierCredential)
     => /\ Len(otps') = Len(otps)
        /\ \A i \in OtpIds : otps'[i].status = otps[i].status
        /\ ~(last'.op = "mpesaCallback" /\ last'.sms)]_vars

\* C8: a transaction whose status is completed never becomes expired or
\* timeout, however a success callback or webhook interleaves with the
\* status reads (lazy check) and the sweep.
C8_CompletedNeverTimesOut ==
  [][\A r \in Refs :
       /\ mpesa[r].status = "completed"
            => mpesa'[r].status \notin {"expired", "timeout"}
       /\ paystack[r].status = "completed"
            => paystack'[r].status \notin {"expired", "timeout"}]_vars

Terminal == {"completed", "failed", "cancelled", "timeout", "expired"}

\* C9: terminal transaction states are absorbing in both variants: once a
\* status is completed, failed, cancelled, timeout or expired no step
\* changes it.
C9_TerminalAbsorbing ==
  [][\A r \in Refs :
       /\ mpesa[r].status \in Terminal => mpesa'[r].status = mpesa[r].status
       /\ paystack[r].status \in Terminal
            => paystack'[r].status = paystack[r].status]_vars

\* C10: every transition of a transaction into completed is followed by the
\* issuance of a credential for its reference.
C10_CompletedLeadsToCredential ==
  \A r \in Refs :
    (mpesa[r].status = "completed") ~> (\E i \in OtpIds : otps[i].ref = r)

\* C11: end to end on M-Pesa: after initiate (amount 50, unit price 5) and
\* the provider's callback with result code 0 on the processing transaction,
\* the transaction is completed and an active credential with the
\* transaction's liters (10) exists for its reference.
C11_CallbackIssuesCredential ==
  (/\ last.op = "mpesaCallback"
   /\ last.code = 0
   /\ last.was = "processing"
   /\ last.status = "completed")
  => \E i \in OtpIds : /\ otps[i].ref = last.ref
                       /\ otps[i].status = "active"
                       /\ otps[i].liters = 10

Open == {"pending", "processing"}

\* C12: every M-Pesa transaction that is pending or processing past its 30
\* minutes eventually leaves that state (to timeout, unless a terminal
\* callback arrives), even if nobody reads its status.
C12_MpesaEventuallyTimesOut ==
  \A r \in Refs :
    (mpesa[r].status \in Open /\ mpesa[r].aged) ~> (mpesa[r].status \notin Open)

\* C13: every Paystack transaction that is pending or processing past its
\* 24-hour window eventually leaves that state (to expired, unless a terminal
\* event arrives), by the lazy check or by the periodic sweep.
C13_PaystackEventuallyExpires ==
  \A r \in Refs :
    (paystack[r].status \in Open /\ paystack[r].aged)
      ~> (paystack[r].status \notin Open)

\* C14: when the gateway call made during initiate fails, the transaction
\* created by that initiate has status failed when the call returns, the
\* caller receives an error carrying the gateway's message, and the gateway
\* has been called exactly once for that initiate; in both variants.
C14_GatewayFailure ==
  /\ (last.op = "mpesaInitiate" /\ last.res = "GATEWAY_ERROR")
       => /\ mpesa[last.ref].status = "failed"
          /\ last.calls = 1
          /\ last.message \in GatewayErrors
  /\ (last.op = "paystackInitiate" /\ last.res = "GATEWAY_ERROR")
       => /\ paystack[last.ref].status = "failed"
          /\ last.calls = 1
          /\ last.message \in GatewayErrors
  /\ mi.pc = "fail" => (mi.calls = 1 /\ mi.err \in GatewayErrors)
  /\ pi.pc = "fail" => (pi.calls = 1 /\ pi.err \in GatewayErrors)

\* an M-Pesa initiate whose STK push timed out has just been answered
C14_Witness ==
  /\ last.op = "mpesaInitiate"
  /\ last.res = "GATEWAY_ERROR"
  /\ last.message = "timeout"
  /\ mpesa[last.ref].status = "failed"
  /\ mpesa[last.ref].checkoutRequestId = 0

\* C15: for every transaction created by initiate, in either variant, the
\* stored amount is liters x pricePerLiter for the liters the pricing
\* calculator derives from the requested amount, not the raw request.
C15_AmountIsPriced ==
  \A r \in Refs :
    /\ mpesa[r] # NoTx
         => /\ mpesa[r].amount = mpesa[r].liters * pricePerLiter
            /\ \E a \in AmountsIn : mpesa[r].liters = calculateLiters(a)
    /\ paystack[r] # NoTx
         => \E a \in AmountsIn :
              paystack[r].amount = calculateLiters(a) * pricePerLiter

\* amount / 5 rounded to the nearest integer, ties up
Nearest5(a) == IF 2 * (a % 5) >= 5 THEN (a \div 5) + 1 ELSE a \div 5

\* C16: for every whole amount in [minAmount, maxAmount], at unit price 5
\* and policy nearest, the preview has liters = amount / 5 rounded to the
\* nearest integer (ties up), amount = liters x 5 and difference = liters x 5
\* minus the requested amount; preview(52) = (10, 50, -2) and preview(53) =
\* (11, 55, 2).
C16_Preview ==
  /\ (last.op = "preview" /\ last.requested \in minAmount..maxAmount)
       => /\ last.res = "OK"
          /\ last.liters = Nearest5(last.requested)
          /\ last.amount = last.liters * 5
          /\ last.difference = last.liters * 5 - last.requested
  /\ (last.op = "preview" /\ last.requested = 52)
       => (last.liters = 10 /\ last.amount = 50 /\ last.difference = -2)
  /\ (last.op = "preview" /\ last.requested = 53)
       => (last.liters = 11 /\ last.amount = 55 /\ last.difference = 2)

\* the preview of 53 has been computed
C16_Witness ==
  /\ last.op = "preview"
  /\ last.requested = 53
  /\ last.res = "OK"
  /\ last.liters = 11

TxExists(r) == paystack[r] # NoTx \/ mpesa[r] # NoTx

TxCompleted(r) ==
  \/ paystack[r] # NoTx /\ paystack[r].status = "completed"
  \/ mpesa[r] # NoTx /\ mpesa[r].status = "completed"

\* C17: an issue request succeeds if and only if a transaction with the
\* reference exists in the store of either variant and is completed; with
\* no such transaction it fails with 404, with one that is not completed it
\* fails with 400, and a failed request creates no credential and changes
\* no credential.
C17_IssueIffCompleted ==
  [][(last'.op = "generate") =>
       /\ TxCompleted(last'.ref) <=> (last'.res = "OK")
       /\ ~TxExists(last'.ref) <=> (last'.res = "TX_NOT_FOUND")
       /\ (TxExists(last'.ref) /\ ~TxCompleted(last'.ref))
            <=> (last'.res = "TX_NOT_COMPLETED")
       /\ (last'.res # "OK") => (otps' = otps)]_vars

\* the liters the ledgers record for reference r: the M-Pesa row carries
\* them, a Paystack row carries only the amount they are priced from
TxLiters(r) ==
  (IF mpesa[r] # NoTx THEN {mpesa[r].liters} ELSE {})
    \cup (IF paystack[r] # NoTx THEN {calculateLiters(paystack[r].amount)}
          ELSE {})

\* C18: every credential's liters are the liters of its transaction, on
\* every issuance path, the customer-facing issue request included.
C18_LitersFromTransaction ==
  \A i \in OtpIds : otps[i].liters \in TxLiters(otps[i].ref)

Hashes == {hashOTP(c) : c \in Codes}

C20_BadSignatureRejected ==
  [][(/\ last'.op = "webhook"
      /\ ~verifyWebhookSignature(last'.signature,
                                 WebhookBody(last'.event, last'.ref)))
       => /\ last'.http = 401
          /\ paystack' = paystack
          /\ mpesa' = mpesa
          /\ otps' = otps]_vars

\* C21: every request of a provider, M-Pesa callback or Paystack webhook,
\* is answered with HTTP 200 whatever the outcome of its processing.
C21_ProviderAlways200 ==
  (last.op \in ProviderRoutes) => (last.http = 200)

Sweeps == {"otpSweep", "txSweep", "mpesaSweep"}

\* C22: whatever the stores hold, an expiry sweep (of credentials, of
\* Paystack transactions, of M-Pesa transactions) run immediately after a
\* run of the same sweep changes no record and returns count 0.
C22_SweepIdempotent ==
  (last.op \in Sweeps /\ last.rerun) => (last.count = 0)

\* the credential sweep has run twice in a row over a store holding a
\* credential that the first run expired
C22_Witness ==
  /\ last.op = "otpSweep"
  /\ last.rerun
  /\ \E i \in OtpIds : otps[i].status = "expired" /\ otps[i].timedOut
  /\ \E i \in OtpIds : otps[i].status = "in_progress" /\ otps[i].timedOut

\* C23: a failure of the SMS delivery never affects issuance: the callback
\* still returns normally, the step changes no credential and no
\* transaction, and the credential issued for the reference is active.
C23_SmsFailureHarmless ==
  [][(last'.op = "mpesaCallback" /\ last'.issued /\ ~last'.sms)
       => /\ last'.res = "OK"
          /\ last'.http = 200
          /\ otps' = otps
          /\ mpesa' = mpesa
          /\ paystack' = paystack
          /\ \E i \in OtpIds : /\ otps'[i].ref = last'.ref
                               /\ otps'[i].status = "active"]_vars

\* a callback has issued a credential and its SMS was not delivered
C23_Witness ==
  /\ last.op = "mpesaCallback"
  /\ last.issued
  /\ ~last.sms
  /\ last.res = "OK"
  /\ \E i \in OtpIds : otps[i].ref = last.ref /\ otps[i].status = "active"

\* the newest credential of reference r (0 if there is none)
NewestId(r) ==
  IF {i \in OtpIds : otps[i].ref = r} = {} THEN 0
  ELSE Max({i \in OtpIds : otps[i].ref = r})

\* C24: a station verify of a credential whose expiry time has passed fails
\* with EXPIRED (400) and leaves the credential expired, whether it was
\* active or in_progress when the expiry passed.
C24_ExpiredAtStation ==
  (/\ last.op = "stationVerify"
   /\ NewestId(last.ref) # 0
   /\ otps[NewestId(last.ref)].timedOut
   /\ otps[NewestId(last.ref)].status \notin {"used", "blocked"})
    => /\ last.res = "EXPIRED"
       /\ StatusCode(last.res) = 400
       /\ otps[NewestId(last.ref)].status = "expired"

\* expired by time or by status
Expired(i) == otps[i].timedOut \/ otps[i].status = "expired"

\* the credential i can be used at station s
Usable(i, s) ==
  /\ ~Expired(i)
  /\ otps[i].status \notin {"used", "blocked"}
  /\ ~(/\ enforceStationLock
       /\ otps[i].stationId # NoStation
       /\ otps[i].stationId # s)

C26_VerifyResult ==
  [][(last'.op = "stationVerify" /\ last'.res = "OK")
       => /\ last'.liters = otps[last'.id].liters
          /\ last'.pulses = otps[last'.id].liters * pulsesPerLiter
          /\ otps'[last'.id].liters = otps[last'.id].liters
          /\ otps'[last'.id].status = "in_progress"
          /\ otps'[last'.id].stationId # NoStation
          /\ otps'[last'.id].verified]_vars

\* a station has verified the 10 liter credential
C26_Witness ==
  /\ last.op = "stationVerify"
  /\ last.res = "OK"
  /\ last.liters = 10
  /\ last.pulses = 10000
  /\ otps[last.id].status = "in_progress"
  /\ otps[last.id].stationId = last.who

\* C27: no reference identifies a transaction in the M-Pesa store and also
\* a transaction in the Paystack store.
C27_ReferencesDisjoint ==
  \A r \in Refs : ~(mpesa[r] # NoTx /\ paystack[r] # NoTx)

\* C28: the attempts counter of a credential never exceeds maxAttempts,
\* also when several verify calls with wrong codes run concurrently.
C28_AttemptsBounded ==
  \A i \in OtpIds : otps[i].attempts <= otps[i].maxAttempts

\* the transitions of the credential state machine
Transitions ==
  {<<"active", "in_progress">>, <<"in_progress", "used">>,
   <<"active", "expired">>, <<"active", "blocked">>}

\* C29: every status change of a credential is a transition of the state
\* machine (active to in_progress, in_progress to used, active to expired,
\* active to blocked) or the expiry of an in_progress credential (by a new
\* issuance; expiry by time is let through here as well); blocked, used and
\* expired are never left and in_progress never becomes blocked.
C29_StateMachine ==
  [][\A i \in OtpIds :
       (otps'[i].status # otps[i].status)
         => \/ <<otps[i].status, otps'[i].status>> \in Transitions
            \/ /\ otps[i].status = "in_progress"
               /\ otps'[i].status = "expired"]_vars

\* C30: once a successful verify has set the station of a credential, no
\* later operation changes it to another station.
C30_LockSetOnce ==
  [][\A i \in OtpIds :
       (otps[i].stationId # NoStation)
         => (otps'[i].stationId = otps[i].stationId)]_vars

\* C31: the cache is not authoritative: the customer-facing verify has the
\* same outcome and the same durable effect with and without a cache entry;
\* a correct code leaves the durable credential used, a wrong code has
\* incremented its durable attempts counter.
C31_CacheNotAuthoritative ==
  [][(last'.op = "verify")
       => /\ (last'.res = "OK")
               => \E i \in OtpIds : /\ otps[i].ref = last'.ref
                                    /\ otps[i].hash = hashOTP(last'.code)
                                    /\ otps'[i].status = "used"
          /\ (last'.res = "INVALID")
               => \E i \in OtpIds : /\ otps[i].ref = last'.ref
                                    /\ otps'[i].attempts >= 1]_vars

\* the status the provider's result code stands for
ExpectedStatus(code) ==
  CASE code = 0 -> "completed"
    [] code = 1032 -> "cancelled"
    [] code = 1037 -> "timeout"
    [] OTHER -> "failed"

\* C32: the status resulting from an M-Pesa result is a function of the
\* result code alone (0 completed, 1032 cancelled, 1037 timeout, any other
\* failed), in the callback handler and in the verify poll alike.
C32_StatusFromResultCode ==
  [][/\ (last'.op = "mpesaVerify" /\ last'.res = "OK")
          => /\ last'.status = ExpectedStatus(last'.code)
             /\ mpesa'[last'.ref].status = ExpectedStatus(last'.code)
     /\ (last'.op = "mpesaCallback" /\ last'.status # "")
          => last'.status = ExpectedStatus(last'.code)
     /\ (cb.pc = "update" /\ cb'.pc # "update")
          => mpesa'[cb.ref].status = ExpectedStatus(cb.code)]_vars

\* the verify poll has stored the status of a cancelled payment
C32_Witness ==
  /\ last.op = "mpesaVerify"
  /\ last.res = "OK"
  /\ last.code = 1032
  /\ mpesa[last.ref].status = "cancelled"

\* C33: credentials are an append-only audit trail: no operation deletes a
\* credential, and none changes the reference, the hash, the liters or the
\* maxAttempts of a credential, or makes a passed expiry time pending again.
C33_AppendOnly ==
  [][/\ Len(otps') >= Len(otps)
     /\ \A i \in OtpIds :
          /\ otps'[i].ref = otps[i].ref
          /\ otps'[i].hash = otps[i].hash
          /\ otps'[i].liters = otps[i].liters
          /\ otps'[i].maxAttempts = otps[i].maxAttempts
          /\ otps[i].timedOut => otps'[i].timedOut]_vars

\* two credentials are on record, the older one expired by the issuance of
\* the newer one, which a failed attempt has touched
C33_Witness ==
  /\ Len(otps) >= 2
  /\ otps[1].status = "expired"
  /\ otps[2].attempts >= 1
  /\ otps[1].liters = 10
  /\ otps[2].liters = 10

\* C34: a provider confirmation is never lost to a race with initiation:
\* whenever the provider delivers the success callback (M-Pesa) or the
\* success webhook (Paystack) of a payment it has accepted, the handler
\* finds the transaction and sets it completed.
C34_ConfirmationNotLost ==
  /\ (last.op = "mpesaCallback" /\ last.code = 0)
       => (last.res # "TX_NOT_FOUND" /\ last.status = "completed")
  /\ (last.op = "webhook" /\ last.event = "charge.success")
       => (last.res # "TX_NOT_FOUND" /\ last.status = "completed")

\* C35: issuance is all-or-nothing: when an issue call fails at the insert of
\* the new credential and no other issue call is in flight, a reference that
\* had a credential still has one that is active or in_progress and not
\* timed out.
C35_IssueAllOrNothing ==
  (last.op = "generate" /\ last.res = "CREATE_FAILED"
     /\ GenBusy = {}
     /\ \E i \in OtpIds : otps[i].ref = last.ref)
    => \E i \in OtpIds : /\ otps[i].ref = last.ref
                         /\ otps[i].status \in {"active", "in_progress"}
                         /\ ~otps[i].timedOut

\* C36: a station verify answered LOCKED (403) or IN_USE (409) leaves every
\* credential unchanged (attempts, status, stationId, verifiedAt), whether or
\* not the presented code was correct.
C36_RejectionWritesNothing ==
  [][(last'.op = "stationVerify" /\ last'.res \in {"LOCKED", "IN_USE"})
       => otps' = otps]_vars

\* a station presents the correct code for a credential in use at another
\* station, with the station lock off, and is answered IN_USE
C36_Witness ==
  /\ last.op = "stationVerify"
  /\ last.res = "IN_USE"
  /\ ~enforceStationLock
  /\ last.lock # last.who
  /\ verifyOTP(last.code, otps[last.id].hash)
  /\ otps[last.id].stationId = last.lock

\* C37: the station status view agrees with verify: when status(ref, S) has
\* just reported exists and canUse, a verify(ref, correct code, S) that starts
\* at once, with no operation in between, is on its way to success (its
\* checks of the row it read all pass), for both settings of
\* enforceStationLock.
C37_StatusAgreesWithVerify ==
  [][\A s \in Stations :
       (/\ last.op = "stationOtpStatus"
        /\ last.who = s
        /\ last.exists
        /\ last.canUse
        /\ sv[s].pc = "idle"
        /\ sv'[s].pc = "found"
        /\ sv'[s].ref = last.ref
        /\ verifyOTP(sv'[s].code, otps[sv'[s].id].hash))
       => (SvOutcome(s) = "mark")']_vars

\* C38: the customer-facing verify returns success only for a credential
\* whose durable status is active at that moment: an answer served from the
\* cache has a matching stored credential that is active, and the database
\* path accepts only a row that is active when it is marked used.
C38_SuccessOnlyIfDurablyActive ==
  [][/\ (last'.op = "verify" /\ last'.res = "OK" /\ last'.src = "cache")
          => \E i \in OtpIds : /\ otps[i].ref = last'.ref
                               /\ otps[i].hash = hashOTP(last'.code)
                               /\ otps[i].status = "active"
     /\ (cv.pc = "have" /\ cv'.pc = "cacheop" /\ cv'.res = "OK")
          => otps[cv.id].status = "active"]_vars

\* C39: a webhook event changes a transaction only if signature verification
\* was performed on the request and returned true: a request that carries no
\* signature header changes no transaction.
C39_UnverifiedWebhookChangesNothing ==
  [][(pw.pc = "update" /\ pw'.pc = "idle" /\ paystack' # paystack)
       => /\ pw.signature # NoSignature
          /\ verifyWebhookSignature(pw.signature,
                                    WebhookBody(pw.event, pw.ref))]_vars

====
